---- MODULE Spec2Model ----
(***************************************************************************)
(* The chat application of src/src/App.tsx: the React component App, its  *)
(* persisted conversation (key "chatHistory"), its persisted credential    *)
(* (key "geminiApiKey"), the busy flag isLoading, the diagnostic record    *)
(* debugInfo and the external generation calls in flight.                  *)
(*                                                                         *)
(* A text is a sequence of characters.  The handlers of a React component  *)
(* read the values of the render that created them (`view`), while the     *)
(* state setters act on the component's current state.  React re-renders   *)
(* after every DOM event handler before the next DOM event is dispatched;  *)
(* updates made by the continuation of an awaited call are rendered by a   *)
(* later step (Render).  Spec is the application under DOM events;         *)
(* SpecDirect adds the invocation of handleSendMessage by a render that    *)
(* has already sent, before React commits the next render.                 *)
(***************************************************************************)
EXTENDS Naturals, Sequences, FiniteSets, TLC

VARIABLES
    messages,            \* useLocalStorageState "chatHistory": the conversation
    chatHistory,         \* localStorage["chatHistory"]: the serialized conversation
    input,               \* useState(""): the text of the input field
    isLoading,           \* useState(false): the busy flag
    debugInfo,           \* useState(null): the diagnostic record
    apiKey,              \* useLocalStorageState "geminiApiKey": the credential
    geminiApiKey,        \* localStorage["geminiApiKey"]: the serialized credential
    isApiKeyDialogOpen,  \* useState(false): whether the credential prompt is open
    dialogApiKey,        \* ApiKeyDialog's useState(initialValue): the prompt's field
    view,                \* the values of the last committed render, read by the handlers
    calls,               \* the external generation calls in flight, oldest first
    recipes,             \* the recipe collection of the recipe application
    last                 \* the last step taken and what it did (observation only):
                         \* "send", "ignored", "resolve", "fail", "clear", "reload",
                         \* "render", or "ui" for any other control

vars == <<messages, chatHistory, input, isLoading, debugInfo, apiKey, geminiApiKey,
          isApiKeyDialogOpen, dialogApiKey, view, calls, recipes, last>>

----------------------------------------------------------------------------
(* Bounds of the model *)

MaxLen == 1          \* longest text typed into the input field
MaxMsgs == 4         \* longest conversation explored
MaxServings == 4     \* largest serving count a recipe is rescaled to

----------------------------------------------------------------------------
(* Values *)

Space == " "
Chars == {Space, "a"}

RECURSIVE SeqsUpTo(_, _)
SeqsUpTo(S, n) ==
    IF n = 0 THEN {<<>>}
    ELSE LET shorter == SeqsUpTo(S, n - 1)
         IN  shorter \cup {Append(s, c) : s \in {x \in shorter : Len(x) = n - 1}, c \in S}

Texts == SeqsUpTo(Chars, MaxLen)

Keys == {<<>>, <<"k">>}

Replies == {<<"r">>, <<>>}

SYSTEM_PROMPT ==
    <<"You are a world-class expert on personal development and act as a mentor for the user.">>

ApologyText == <<"Sorry, I encountered an error. Please try again.">>

\* The values a failed call can throw: an Error object with a message, or any other value.
Errors == { [isError |-> TRUE,  message |-> <<"quota">>],
            [isError |-> FALSE, message |-> <<"oops">>] }

Null == [null |-> TRUE]

IsNull(d) == "null" \in DOMAIN d

----------------------------------------------------------------------------
(* Pure functions *)

\* String.prototype.trim: drops the white space at both ends.
RECURSIVE TrimLeft(_)
TrimLeft(s) ==
    IF s = <<>> THEN <<>>
    ELSE IF Head(s) = Space THEN TrimLeft(Tail(s)) ELSE s

RECURSIVE TrimRight(_)
TrimRight(s) ==
    IF s = <<>> THEN <<>>
    ELSE IF s[Len(s)] = Space THEN TrimRight(SubSeq(s, 1, Len(s) - 1)) ELSE s

\* Mutant: the input is compared with "" without being trimmed.
TrimNothing(s) == s

Trim(s) == TrimRight(TrimLeft(s))

\* JSON.stringify of a string: the text between quotes.
Quote == "\""

StringifyString(s) == <<Quote>> \o s \o <<Quote>>

ParseString(j) == SubSeq(j, 2, Len(j) - 1)

\* JSON.stringify of a boolean.
StringifyBool(b) == IF b THEN <<"t", "r", "u", "e">> ELSE <<"f", "a", "l", "s", "e">>

ParseBool(j) == j = <<"t", "r", "u", "e">>

\* JSON.stringify of Message[]: per message the two fields, text then isUser.
RECURSIVE StringifyMessages(_)
StringifyMessages(ms) ==
    IF ms = <<>> THEN <<>>
    ELSE <<StringifyString(Head(ms).text), StringifyBool(Head(ms).isUser)>>
         \o StringifyMessages(Tail(ms))

RECURSIVE ParseMessages(_)
ParseMessages(j) ==
    IF Len(j) < 2 THEN <<>>
    ELSE <<[text |-> ParseString(j[1]), isUser |-> ParseBool(j[2])]>>
         \o ParseMessages(SubSeq(j, 3, Len(j)))

\* The role-tagged history handed to startChat.
RECURSIVE MapRoles(_)
MapRoles(ms) ==
    IF ms = <<>> THEN <<>>
    ELSE <<[role |-> IF Head(ms).isUser THEN "user" ELSE "model", parts |-> Head(ms).text]>>
         \o MapRoles(Tail(ms))

ChatHistoryFor(ms, text) ==
    <<[role |-> "model", parts |-> SYSTEM_PROMPT]>> \o MapRoles(ms)
    \o <<[role |-> "user", parts |-> text]>>

\* error instanceof Error ? error.message : String(error)
ErrorText(e) == IF e.isError THEN e.message ELSE <<"String">> \o e.message

----------------------------------------------------------------------------
(* State setters of the persisted hooks *)

\* Mutant: the conversation is kept in memory only (useState).
SetMessagesInMemory(ms) ==
    /\ messages' = ms
    /\ UNCHANGED chatHistory

\* setMessages: the new conversation, written through to localStorage.
SetMessages(ms) ==
    /\ messages' = ms
    /\ chatHistory' = StringifyMessages(ms)

\* setApiKey: the new credential, written through to localStorage.
SetApiKey(k) ==
    /\ apiKey' = k
    /\ geminiApiKey' = StringifyString(k)

\* What a render captures for the handlers it creates.
Snapshot(ms, in, busy, key) ==
    [messages |-> ms, input |-> in, isLoading |-> busy, apiKey |-> key]

\* React commits the render of the state the step leaves.
Commit == view' = Snapshot(messages', input', isLoading', apiKey')

----------------------------------------------------------------------------
(* Initial state: first load, nothing stored *)

Init ==
    /\ messages = <<>>
    /\ chatHistory = StringifyMessages(<<>>)
    /\ input = <<>>
    /\ isLoading = FALSE
    /\ debugInfo = Null
    /\ apiKey = <<>>
    /\ geminiApiKey = StringifyString(<<>>)
    /\ isApiKeyDialogOpen = TRUE          \* the effect on apiKey opens the prompt
    /\ dialogApiKey = <<>>
    /\ view = Snapshot(<<>>, <<>>, FALSE, <<>>)
    /\ calls = <<>>
    /\ recipes = <<>>
    /\ last = [op |-> "init"]

----------------------------------------------------------------------------
(* handleSendMessage *)

UserMessage(text) == [text |-> text, isUser |-> TRUE]

BotMessage(text) == [text |-> text, isUser |-> FALSE]

\* Mutant: the message appended on failure carries the error's message.
ErrorMessageLeaks == [text |-> <<"quota">>, isUser |-> FALSE]

\* Mutant: the apology is appended as a user turn.
ErrorMessageAsUser == [text |-> ApologyText, isUser |-> TRUE]

ErrorMessage == [text |-> ApologyText, isUser |-> FALSE]

\* Mutant: the early return does not look at the credential.
RejectedWithoutKey(v) == Trim(v.input) = <<>> \/ v.isLoading

\* The early return of handleSendMessage, on the values of the handler's render.
Rejected(v) == Trim(v.input) = <<>> \/ v.isLoading \/ v.apiKey = <<>>

\* Mutant: an accepted send does not set the busy flag.
BusyOnSendForgotten == FALSE

\* setIsLoading(true) of an accepted send.
BusyOnSend == TRUE

\* Mutant: the busy flag is not cleared when the call completes.
BusyOnCompletionKept == TRUE

\* setIsLoading(false) of the finally block.
BusyOnCompletion == FALSE

\* Mutant: an accepted send keeps the diagnostic record.
DebugOnSendKept == debugInfo

\* setDebugInfo(null) of an accepted send.
DebugOnSend == Null

\* The exchange with the service that an accepted send starts: the history given to
\* startChat, the text given to sendMessage and the credential.  `c` remembers the
\* conversation the send was accepted on.
NewCall(v, c) ==
    [history |-> ChatHistoryFor(v.messages, v.input),
     message |-> v.input,
     apiKey  |-> v.apiKey,
     c       |-> c]

\* What the exchange sends to the service: sendMessage sends the history the chat
\* was started with, followed by its argument as a user turn.
Request(call) == call.history \o <<[role |-> "user", parts |-> call.message]>>

\* The model explores conversations of at most MaxMsgs messages.
Room == Len(messages) + Len(calls) + 2 <= MaxMsgs

\* handleSendMessage up to its first await.
HandleSendMessage ==
    /\ IF Rejected(view)
       THEN /\ UNCHANGED <<messages, chatHistory, input, isLoading, debugInfo, calls>>
            /\ last' = [op |-> "ignored"]
       ELSE /\ Room
            /\ SetMessages(Append(messages, UserMessage(view.input)))
            /\ input' = <<>>
            /\ isLoading' = BusyOnSend
            /\ debugInfo' = DebugOnSend
            /\ calls' = Append(calls, NewCall(view, messages))
            /\ last' = [op |-> "send", text |-> view.input, c |-> messages]
    /\ UNCHANGED <<apiKey, geminiApiKey, isApiKeyDialogOpen, dialogApiKey, recipes>>

RemoveAt(s, i) == SubSeq(s, 1, i - 1) \o SubSeq(s, i + 1, Len(s))

\* The rest of handleSendMessage when the awaited call resolves with text r.
Resolve(i, r) ==
    /\ SetMessages(Append(messages, BotMessage(r)))
    /\ isLoading' = BusyOnCompletion
    /\ calls' = RemoveAt(calls, i)
    /\ last' = [op |-> "resolve", call |-> calls[i], text |-> r]
    /\ UNCHANGED <<input, debugInfo, apiKey, geminiApiKey, isApiKeyDialogOpen,
                   dialogApiKey, view, recipes>>

\* The rest of handleSendMessage when the awaited call fails with error e.
Fail(i, e) ==
    /\ SetMessages(Append(messages, ErrorMessage))
    /\ debugInfo' = [error |-> ErrorText(e), details |-> e]
    /\ isLoading' = BusyOnCompletion
    /\ calls' = RemoveAt(calls, i)
    /\ last' = [op |-> "fail", call |-> calls[i], error |-> e]
    /\ UNCHANGED <<input, apiKey, geminiApiKey, isApiKeyDialogOpen, dialogApiKey, view, recipes>>

----------------------------------------------------------------------------
(* The controls *)

\* disabled={isLoading || !apiKey} of the input field and of the Send button.
SendDisabled(v) == v.isLoading \/ v.apiKey = <<>>

\* Mutant: the Clear Chat button is never disabled.
ClearNeverDisabled(v) == FALSE

\* disabled={isLoading} of the Clear Chat button.
ClearDisabled(v) == v.isLoading

\* The Send button.  A click on the disabled button reaches no handler.
ClickSend ==
    /\ HandleSendMessage
    /\ Commit

\* handleKeyPress: Enter without Shift sends, any other key does nothing here.
HandleKeyPress(key, shiftKey) ==
    IF key = "Enter" /\ ~shiftKey
    THEN HandleSendMessage
    ELSE /\ last' = [op |-> "ui"]
         /\ UNCHANGED <<messages, chatHistory, input, isLoading, debugInfo, calls,
                        apiKey, geminiApiKey, isApiKeyDialogOpen, dialogApiKey, recipes>>

KeyPress ==
    \E key \in {"Enter", "a"}, shiftKey \in BOOLEAN :
        /\ HandleKeyPress(key, shiftKey)
        /\ Commit

\* onChange of the input field.
TypeInput ==
    \E t \in Texts :
        /\ ~SendDisabled(view)
        /\ input' = t
        /\ last' = [op |-> "ui"]
        /\ UNCHANGED <<messages, chatHistory, isLoading, debugInfo, calls,
                       apiKey, geminiApiKey, isApiKeyDialogOpen, dialogApiKey, recipes>>
        /\ Commit

\* Mutant: clear removes the last message only.
HandleClearChatLastOnly == SetMessages(SubSeq(messages, 1, Len(messages) - 1))

\* Mutant: clear empties the conversation in memory and not the stored one.
HandleClearChatInMemory ==
    /\ messages' = <<>>
    /\ UNCHANGED chatHistory

\* handleClearChat, behind the Clear Chat button.
HandleClearChat == SetMessages(<<>>)

ClickClear ==
    /\ ~ClearDisabled(view)
    /\ HandleClearChat
    /\ last' = [op |-> "clear", cleared |-> Len(messages)]
    /\ UNCHANGED <<input, isLoading, debugInfo, calls,
                   apiKey, geminiApiKey, isApiKeyDialogOpen, dialogApiKey, recipes>>
    /\ Commit

\* The Set API Key button.
OpenDialog ==
    /\ isApiKeyDialogOpen' = TRUE
    /\ last' = [op |-> "ui"]
    /\ UNCHANGED <<messages, chatHistory, input, isLoading, debugInfo, calls,
                   apiKey, geminiApiKey, dialogApiKey, recipes>>
    /\ Commit

\* onChange of the prompt's field.
TypeKey ==
    \E k \in Keys :
        /\ isApiKeyDialogOpen
        /\ dialogApiKey' = k
        /\ last' = [op |-> "ui"]
        /\ UNCHANGED <<messages, chatHistory, input, isLoading, debugInfo, calls,
                       apiKey, geminiApiKey, isApiKeyDialogOpen, recipes>>
        /\ Commit

\* handleSubmit of the prompt: handleApiKeySubmit, then onClose; the effect on
\* apiKey reopens the prompt when the credential became empty.
SubmitDialog ==
    /\ isApiKeyDialogOpen
    /\ SetApiKey(dialogApiKey)
    /\ isApiKeyDialogOpen' = (apiKey' # apiKey /\ apiKey' = <<>>)
    /\ last' = [op |-> "ui"]
    /\ UNCHANGED <<messages, chatHistory, input, isLoading, debugInfo, calls, dialogApiKey, recipes>>
    /\ Commit

\* Cancel of the prompt.
CancelDialog ==
    /\ isApiKeyDialogOpen
    /\ isApiKeyDialogOpen' = FALSE
    /\ last' = [op |-> "ui"]
    /\ UNCHANGED <<messages, chatHistory, input, isLoading, debugInfo, calls,
                   apiKey, geminiApiKey, dialogApiKey, recipes>>
    /\ Commit

\* React renders the updates made by a completed call.
Render ==
    /\ view # Snapshot(messages, input, isLoading, apiKey)
    /\ view' = Snapshot(messages, input, isLoading, apiKey)
    /\ last' = [op |-> "render"]
    /\ UNCHANGED <<messages, chatHistory, input, isLoading, debugInfo, apiKey,
                   geminiApiKey, isApiKeyDialogOpen, dialogApiKey, calls, recipes>>

\* The page is loaded again: the hooks read localStorage, everything else starts
\* afresh and the calls of the old page are gone.
Reload ==
    /\ messages' = ParseMessages(chatHistory)
    /\ apiKey' = ParseString(geminiApiKey)
    /\ input' = <<>>
    /\ isLoading' = FALSE
    /\ debugInfo' = Null
    /\ isApiKeyDialogOpen' = (apiKey' = <<>>)
    /\ dialogApiKey' = apiKey'
    /\ calls' = <<>>
    /\ last' = [op |-> "reload", after |-> last.op,
                 cleared |-> IF last.op = "clear" THEN last.cleared ELSE 0]
    /\ UNCHANGED <<chatHistory, geminiApiKey, recipes>>
    /\ Commit

\* The awaited call of some send in flight completes.
CallResolves == \E i \in 1..Len(calls), r \in Replies : Resolve(i, r)

CallFails == \E i \in 1..Len(calls), e \in Errors : Fail(i, e)

Next ==
    \/ ClickSend
    \/ KeyPress
    \/ TypeInput
    \/ ClickClear
    \/ OpenDialog
    \/ TypeKey
    \/ SubmitDialog
    \/ CancelDialog
    \/ CallResolves
    \/ CallFails
    \/ Render
    \/ Reload

Spec == Init /\ [][Next]_vars

\* handleSendMessage invoked again by the render that already sent, before React
\* has committed the render of the updates it made.
DirectSend ==
    /\ HandleSendMessage
    /\ UNCHANGED view

NextDirect == Next \/ DirectSend

SpecDirect == Init /\ [][NextDirect]_vars

----------------------------------------------------------------------------
(* The recipe store.  Amounts are counted in hundredths, the precision that   *)
(* rescale rounds to.                                                         *)

chatVars == <<messages, chatHistory, input, isLoading, debugInfo, apiKey, geminiApiKey,
              isApiKeyDialogOpen, dialogApiKey, view, calls>>

\* The fixed built-in list the collection is seeded with.
DefaultRecipes ==
    << [id |-> 1, name |-> "pasta",   servings |-> 4, amounts |-> <<40000>>],
       [id |-> 2, name |-> "pancake", servings |-> 2, amounts |-> <<150, 33>>] >>

\* Mutant: the scaled amount is cut off after two decimal places.
RoundDown(n, d) == n \div d

\* n / d rounded to the nearest whole hundredth, a half rounded away from zero.
Round(n, d) == (2 * n + d) \div (2 * d)

\* The recipe with every amount multiplied by newServings / servings.
Rescaled(r, newServings) ==
    [r EXCEPT !.servings = newServings,
              !.amounts = [j \in 1..Len(r.amounts) |->
                              Round(r.amounts[j] * newServings, r.servings)]]

\* Mutant: the defaults are added whether or not the collection is empty.
SeededAlways(rs) == rs \o DefaultRecipes

\* The collection after seedIfEmpty.
Seeded(rs) == IF rs = <<>> THEN DefaultRecipes ELSE rs

\* seedIfEmpty(defaults), run on page load.
SeedIfEmpty ==
    /\ recipes' = Seeded(recipes)
    /\ last' = [op |-> "seed", wasEmpty |-> recipes = <<>>,
                 again |-> (last.op = "seed" /\ last.wasEmpty)]
    /\ UNCHANGED chatVars

\* rescale(recipeId, newServings) of a stored recipe.
Rescale ==
    \E i \in 1..Len(recipes), newServings \in 1..MaxServings :
        /\ recipes' = [recipes EXCEPT ![i] = Rescaled(recipes[i], newServings)]
        /\ last' = [op |-> "rescale", id |-> recipes[i].id, servings |-> newServings,
                     before |-> recipes]
        /\ UNCHANGED chatVars

\* The persisted collection is cleared from outside the application.
StorageCleared ==
    /\ recipes # <<>>
    /\ recipes' = <<>>
    /\ last' = [op |-> "cleared"]
    /\ UNCHANGED chatVars

NextRecipes ==
    \/ SeedIfEmpty
    \/ Rescale
    \/ StorageCleared

SpecRecipes == Init /\ [][NextRecipes]_vars

----------------------------------------------------------------------------
(* Properties *)

\* A step that ends in a state labelled "send" or "ignored" is an invocation of
\* handleSendMessage (Send button, Enter key, or a direct invocation).
SendInvoked == last'.op \in {"send", "ignored"}

Pending == calls # <<>>

\* A text that is empty or holds white space only.
Blank(t) == \A i \in 1..Len(t) : t[i] = " "

\* The messages the claims speak of, written out.
UserTurn(t) == [text |-> t, isUser |-> TRUE]

BotTurn(t) == [text |-> t, isUser |-> FALSE]

Apology ==
    [text |-> <<"Sorry, I encountered an error. Please try again.">>, isUser |-> FALSE]

\* C1: while a generation call is pending, every further send invocation, also
\* one made by the render that has not yet seen the busy flag, appends nothing to
\* the conversation, issues no second call, and reports no error.
C1_PendingSendIgnored ==
    [][(Pending /\ SendInvoked) =>
          /\ messages' = messages
          /\ calls' = calls
          /\ debugInfo' = debugInfo]_vars

C3_BusyFlagSetAndCleared ==
    /\ [](Pending => isLoading)
    /\ [][/\ (last'.op = "send") => (isLoading' /\ calls' # <<>>)
          /\ (last'.op \in {"resolve", "fail"}) => ~isLoading']_vars

\* A call has failed and send is not blocked.
C3_Witness == last.op = "fail" /\ ~isLoading /\ ~Pending

\* C4: when the call of a send of text t accepted on conversation c fails, the
\* conversation after the call completes is c, the user message t, the apology.
C4_FailedCallConversation ==
    last.op = "fail" =>
        /\ messages = last.call.c \o <<UserTurn(last.call.message), Apology>>
        /\ ~isLoading

\* A call sent on a non-empty conversation has failed.
C4_Witness == last.op = "fail" /\ last.call.c # <<>>

\* C5: when the call of a send of text t accepted on conversation c resolves
\* with reply r, the conversation after the call completes is c, the user
\* message t, the bot message r: one bot message per successful call.
C5_ResolvedCallConversation ==
    last.op = "resolve" =>
        /\ messages = last.call.c \o <<UserTurn(last.call.message), BotTurn(last.text)>>
        /\ Len(messages) = Len(last.call.c) + 2

\* A call sent on a non-empty conversation has resolved.
C5_Witness == last.op = "resolve" /\ last.call.c # <<>>

\* C6: a send whose input is empty or only white space changes neither the
\* conversation, the chatHistory slot, the busy flag, the input text nor the
\* diagnostic record, and issues no call.
C6_BlankSendNoOp ==
    [][(Blank(input) /\ SendInvoked) =>
          UNCHANGED <<messages, chatHistory, isLoading, input, debugInfo, calls>>]_vars

\* A white-space input was sent with a credential stored and no call pending.
C6_Witness ==
    /\ last.op = "ignored"
    /\ input # <<>>
    /\ Blank(input)
    /\ apiKey # <<>>
    /\ ~isLoading

\* C7: while the stored credential is empty no send appends a message or
\* issues a call; with a credential, a send of non-blank input while not busy
\* is accepted.
C7_CredentialGate ==
    [][/\ (apiKey = <<>> /\ SendInvoked) => (messages' = messages /\ calls' = calls)
       /\ (apiKey # <<>> /\ ~isLoading /\ ~Blank(input) /\ SendInvoked) =>
              /\ last'.op = "send"
              /\ messages' = Append(messages, UserTurn(input))
              /\ Len(calls') = Len(calls) + 1]_vars

\* A non-blank input was sent while the stored credential was empty.
C7_Witness ==
    /\ last.op = "ignored"
    /\ apiKey = <<>>
    /\ ~Blank(input)
    /\ ~isLoading

\* C8: every step leaves the conversation unchanged, appends exactly one
\* message at its end, or replaces it with the empty sequence.
C8_AppendOrReset ==
    [][\/ messages' = messages
       \/ messages' = <<>>
       \/ /\ Len(messages') = Len(messages) + 1
          /\ SubSeq(messages', 1, Len(messages)) = messages]_vars

\* A full conversation was built by appends.
C8_Witness == last.op = "resolve" /\ Len(messages) = MaxMsgs

\* C9: the value stored under "chatHistory" is the serialized conversation, and
\* reading it back gives the conversation, message by message.
C9_PersistedEqualsMemory ==
    /\ chatHistory = StringifyMessages(messages)
    /\ ParseMessages(chatHistory) = messages

\* The page was loaded again with a conversation of several messages.
C9_Witness == last.op = "reload" /\ Len(messages) >= 3

\* C10: after clear the conversation and the stored conversation are empty,
\* and so is the conversation read by a reload that follows the clear.
C10_ClearEmpties ==
    /\ last.op = "clear" => (messages = <<>> /\ ParseMessages(chatHistory) = <<>>)
    /\ (last.op = "reload" /\ last.after = "clear") => messages = <<>>

\* The page was loaded again right after a non-empty conversation was cleared.
C10_Witness == last.op = "reload" /\ last.after = "clear" /\ last.cleared > 0

\* The turn a message is sent as.
TurnOf(m) == [role |-> IF m.isUser THEN "user" ELSE "model", parts |-> m.text]

\* The transcript the claim describes for a send of text t on conversation c.
TranscriptOf(c, t) ==
    <<[role |-> "model", parts |-> SYSTEM_PROMPT]>>
    \o [i \in 1..Len(c) |-> TurnOf(c[i])]
    \o <<[role |-> "user", parts |-> t]>>

\* C11: what an accepted send of text t on conversation c sends to the service
\* is the system turn, one turn per message of c in order, then the user turn t
\* exactly once.
C11_TranscriptSent ==
    \A i \in 1..Len(calls) :
        Request(calls[i]) = TranscriptOf(calls[i].c, calls[i].message)

\* The texts a diagnostic record can hold for the errors of the model.
ErrorTexts == {e.message : e \in Errors} \cup {ErrorText(e) : e \in Errors}

\* C12: a failed call stores the error message and the raw error in the
\* diagnostic record and appends only the apology; no message of the
\* conversation and no entry of the chatHistory slot holds an error text.
C12_DiagnosticsSeparate ==
    /\ last.op = "fail" =>
          /\ debugInfo = [error |-> ErrorText(last.error), details |-> last.error]
          /\ messages = Append(last.call.c \o <<UserTurn(last.call.message)>>, Apology)
    /\ \A i \in 1..Len(messages) : messages[i].text \notin ErrorTexts
    /\ \A j \in 1..Len(chatHistory) :
          chatHistory[j] \notin {<<"\"">> \o x \o <<"\"">> : x \in ErrorTexts}

\* A call has failed with a thrown value that is no Error object.
C12_Witness ==
    /\ last.op = "fail"
    /\ ~IsNull(debugInfo)
    /\ ~debugInfo.details.isError

\* C13: while a call is pending, no step other than its completion (or a new
\* page load) clears the busy flag, ends the call or changes the conversation.
C13_BusyUntilCompletion ==
    [][(Pending /\ isLoading /\ last'.op \notin {"resolve", "fail", "reload"}) =>
          /\ isLoading'
          /\ calls' = calls
          /\ messages' = messages]_vars

\* The credential was set to empty while a call was pending.
C13_Witness == Pending /\ isLoading /\ last.op = "ui" /\ apiKey = <<>>

\* The conversation read from the chatHistory slot.
Persisted == ParseMessages(chatHistory)

\* C16: the persisted conversation alternates user and bot messages, beginning
\* with a user message, and its length is even whenever no call is pending.
C16_Alternates ==
    /\ \A i \in 1..Len(Persisted) : Persisted[i].isUser <=> (i % 2 = 1)
    /\ ~Pending => Len(Persisted) % 2 = 0

\* C17: clear does not act while a call is pending, and a call that completes
\* finds the conversation of its send followed by its user message and appends
\* one bot or apology message directly after it.
C17_ReplyFollowsItsMessage ==
    [][/\ Pending => last'.op # "clear"
       /\ last'.op \in {"resolve", "fail"} =>
             /\ messages = Append(last'.call.c, UserTurn(last'.call.message))
             /\ Len(messages') = Len(messages) + 1
             /\ SubSeq(messages', 1, Len(messages)) = messages
             /\ ~messages'[Len(messages')].isUser]_vars

\* A call sent on a conversation of two messages has completed.
C17_Witness ==
    /\ last.op \in {"resolve", "fail"}
    /\ Len(last.call.c) = 2
    /\ Len(messages) = 4

\* The last message of the conversation is the apology.
EndsWithApology == messages # <<>> /\ messages[Len(messages)] = Apology

\* C18 as claimed: the record becomes non-null by a failure only and null again
\* by an accepted send only, and while it is non-null the conversation ends
\* with the apology.
C18_DiagnosticsUntilSend ==
    /\ [](~IsNull(debugInfo) => EndsWithApology)
    /\ [][/\ (IsNull(debugInfo) /\ ~IsNull(debugInfo')) <=> last'.op = "fail"
          /\ (~IsNull(debugInfo) /\ IsNull(debugInfo')) => last'.op = "send"
          /\ last'.op \in {"send", "resolve"} => IsNull(debugInfo')
          /\ last'.op = "ignored" => debugInfo' = debugInfo]_vars

\* C18 as amended: the record becomes non-null by a failure only and null again
\* by an accepted send or a page reload only; an accepted send and a successful
\* call leave it null, a rejected send leaves it unchanged, and while it is
\* non-null the conversation ends with the apology or has been cleared.
C18_DiagnosticsUntilSendOrReload ==
    /\ [](~IsNull(debugInfo) => (EndsWithApology \/ messages = <<>>))
    /\ [][/\ (IsNull(debugInfo) /\ ~IsNull(debugInfo')) <=> last'.op = "fail"
          /\ (~IsNull(debugInfo) /\ IsNull(debugInfo')) => last'.op \in {"send", "reload"}
          /\ last'.op \in {"send", "resolve"} => IsNull(debugInfo')
          /\ last'.op = "ignored" => debugInfo' = debugInfo]_vars

\* The conversation was cleared while the record of a failure was shown.
C18_Witness == ~IsNull(debugInfo) /\ last.op = "clear" /\ last.cleared > 0

\* E is a * newServings / oldServings rounded to the nearest hundredth, a half upward.
NearestTo(E, a, newServings, oldServings) ==
    /\ 2 * oldServings * E <= 2 * a * newServings + oldServings
    /\ 2 * a * newServings + oldServings < 2 * oldServings * E + 2 * oldServings

\* C14: rescale(id, n) sets the servings of the recipe with that id to n and
\* each of its amounts a to round(a * n / s, 2), s its servings before, and
\* leaves every other recipe as it was; servings 4 with amount 400 rescaled to
\* servings 2 gives amount 200.
C14_RescaleProportional ==
    last.op = "rescale" =>
        /\ Len(recipes) = Len(last.before)
        /\ \A i \in 1..Len(recipes) :
              LET old == last.before[i]
                  new == recipes[i]
              IN  IF old.id # last.id
                  THEN new = old
                  ELSE /\ new.id = old.id
                       /\ new.name = old.name
                       /\ new.servings = last.servings
                       /\ Len(new.amounts) = Len(old.amounts)
                       /\ \A j \in 1..Len(old.amounts) :
                             NearestTo(new.amounts[j], old.amounts[j],
                                       last.servings, old.servings)
                       /\ (old.servings = 4 /\ old.amounts = <<40000>> /\ last.servings = 2)
                             => new.amounts = <<20000>>

\* Servings 4 with amount 400 was rescaled to servings 2, and amount is 200.
C14_Witness ==
    /\ last.op = "rescale"
    /\ last.id = 1
    /\ last.servings = 2
    /\ last.before[1].servings = 4
    /\ last.before[1].amounts = <<40000>>
    /\ recipes[1].amounts = <<20000>>

\* C15: seedIfEmpty fills an empty collection with the defaults and leaves a
\* non-empty collection as it is; called twice in a row on an empty collection
\* it gives what one call gives.
C15_SeedIdempotent ==
    /\ [](last.op = "seed" =>
             /\ recipes # <<>>
             /\ last.wasEmpty => recipes = DefaultRecipes
             /\ last.again => (recipes = DefaultRecipes /\ Len(recipes) = 2))
    /\ [][last'.op = "seed" =>
             /\ recipes # <<>> => recipes' = recipes
             /\ recipes = <<>> => Len(recipes') = Len(DefaultRecipes)]_vars

\* seedIfEmpty was called twice in a row, the first time on an empty collection.
C15_Witness == last.op = "seed" /\ last.again /\ ~last.wasEmpty

====
